---------------------------- MODULE Spec2Model ----------------------------
(***************************************************************************)
(* A model of tracelib.h: the process-wide trace session (traceActive,     *)
(* dataVector, traceFile, stringBuffer, clockInit, startTime) and its      *)
(* operations trace_start, trace_flush, trace_end and the emit functions.  *)
(* Rendered events and the file content are character strings, built as    *)
(* sprintf and operator<< build them.                                      *)
(***************************************************************************)
EXTENDS Integers, Sequences, FiniteSets, TLC

(***************************************************************************)
(* Bounds of the model.  TRACE_MAX is 10000 in tracelib.h:34; the model    *)
(* runs it scaled down so that a full buffer is reached.                   *)
(***************************************************************************)
TRACE_MAX == 1
MaxClock == 2
\* width of int in the model (32 in the build)
IntBits == 8

\* emit calls allowed in one session: enough to fill the buffer and
\* overflow it
MaxEmits == TRACE_MAX + 1

(***************************************************************************)
(* Program constants.                                                      *)
(***************************************************************************)
PID_VALUE == 1
TID_VALUE == 1

(***************************************************************************)
(* Inputs of the calls.                                                    *)
(***************************************************************************)
Names == {"f"}
Cats == {"c"}
Tids == {2}
ObjPointers == {43981}
KeyLists == {<<"k", "m">>}
ValueLists == {<<"1">>, <<"1", "2">>}

VARIABLES
    traceActive,    \* static bool traceActive
    dataVector,     \* static std::vector<std::string> dataVector
    vecCapacity,    \* dataVector.capacity()
    traceFile,      \* static std::ofstream traceFile: [open, good, content]
    stringBuffer,   \* static char stringBuffer[1000]
    clockInit,      \* static bool clockInit
    startTime,      \* static time_point startTime (microseconds)
    now,            \* the value Clock::now() returns (microseconds)
    crashed,        \* the process was killed by an invalid memory access
    last,           \* the last call made whole: its function, whether the session was
                    \* active, whether it took effect, whether it reported an error
    emitted,        \* the records appended since the last opening trace_start
    session,        \* what was called since the last opening trace_start, the
                    \* time of that trace_start (start) and the time of the
                    \* first trace_start of the process that opened the file
                    \* (origin)
    threads,        \* each calling thread's place in the call it is making
    slots,          \* the strings lying in dataVector's storage, those of
                    \* destroyed elements included
    rendered,       \* the records rendered by the threads' calls, in order
    conc            \* whether two threads' calls overlapped, whether an
                    \* undefined access went on, and the calls made by threads

vars == <<traceActive, dataVector, vecCapacity, traceFile, stringBuffer,
          clockInit, startTime, now, crashed, last, emitted, session,
          threads, slots, rendered, conc>>

concVars == <<threads, slots, rendered, conc>>

progVars == <<traceActive, dataVector, vecCapacity, traceFile, stringBuffer,
              clockInit, startTime>>

(***************************************************************************)
(* std::ofstream                                                           *)
(***************************************************************************)

\* traceFile.open(filename): basic_filebuf::open fails when the buffer is
\* already open; on failure failbit is set, on success the state is cleared
\* and the file truncated.
StreamOpen(f, canOpen) ==
    IF f.open \/ ~canOpen
    THEN [f EXCEPT !.good = FALSE]
    ELSE [open |-> TRUE, good |-> TRUE, content |-> ""]

\* traceFile << s: nothing is written in a failed state; a write to a stream
\* that is not open sets badbit.
StreamWrite(f, s) ==
    IF ~f.good THEN f
    ELSE IF ~f.open THEN [f EXCEPT !.good = FALSE]
    ELSE [f EXCEPT !.content = f.content \o s]

\* traceFile.close(): closing a stream that is not open sets failbit.
StreamClose(f) ==
    IF f.open THEN [f EXCEPT !.open = FALSE] ELSE [f EXCEPT !.good = FALSE]

\* for(auto const& value : dataVector) traceFile << value;
RECURSIVE WriteAll(_, _)
WriteAll(f, vec) ==
    IF vec = <<>> THEN f
    ELSE WriteAll(StreamWrite(f, Head(vec)), Tail(vec))

(***************************************************************************)
(* Helpers of the emit functions.                                          *)
(***************************************************************************)

\* int(...) and %i: the value as a two's complement int
ToInt(x) ==
    LET m == 2 ^ IntBits
        r == x % m
    IN  IF r >= m \div 2 THEN r - m ELSE r

\* int(duration_cast<microseconds>(Clock::now() - startTime).count())
Ts == ToInt(now - startTime)

\* the test "dataVector.size() == dataVector.capacity()"
\* (variant: the test left out)
NeedFlushNever(vec, cap) == FALSE
NeedFlush(vec, cap) == Len(vec) = cap

\* if( dataVector.size() == dataVector.capacity() ) trace_flush();
\* (variant: the flush writes the records and leaves them in the buffer)
FlushIfFullNoClear(vec, f, cap) ==
    IF NeedFlush(vec, cap)
    THEN [vec |-> vec, file |-> WriteAll(f, vec)]
    ELSE [vec |-> vec, file |-> f]
FlushIfFull(vec, f, cap) ==
    IF NeedFlush(vec, cap)
    THEN [vec |-> <<>>, file |-> WriteAll(f, vec)]
    ELSE [vec |-> vec, file |-> f]

\* dataVector.push_back: the capacity grows when the vector is full
PushCapacity(vec, cap) ==
    IF Len(vec) = cap THEN (IF cap = 0 THEN 1 ELSE 2 * cap) ELSE cap

\* std::string::pop_back
PopBack(s) == SubSeq(s, 1, Len(s) - 1)

\* the strip of trace_end applied to the last element of a non-empty vector
StripLast(vec) ==
    [vec EXCEPT ![Len(vec)] = PopBack(PopBack(vec[Len(vec)]))]

\* the threads that call the library
ThreadIds == {1, 2}

\* a thread that is in no call
Idle == [pc |-> "idle", ret |-> "idle", i |-> 0, n |-> 0, cap |-> 0]

Init ==
    /\ traceActive = FALSE
    /\ dataVector = <<>>
    /\ vecCapacity = 0
    /\ traceFile = [open |-> FALSE, good |-> TRUE, content |-> ""]
    /\ stringBuffer = ""
    /\ clockInit = FALSE
    /\ startTime = 0
    /\ now = 1
    /\ crashed = FALSE
    /\ last = [op |-> "none", active |-> FALSE, ok |-> FALSE, err |-> FALSE]
    /\ emitted = <<>>
    /\ session = [emits |-> 0, flushed |-> FALSE, restarted |-> FALSE, opened |-> FALSE,
                  start |-> 0, origin |-> 0]
    /\ threads = [t \in ThreadIds |-> Idle]
    /\ slots = <<>>
    /\ rendered = <<>>
    /\ conc = [interleaved |-> FALSE, ub |-> FALSE, calls |-> 0]

\* time passes between two calls
Tick ==
    /\ ~crashed
    /\ now < MaxClock
    /\ now' = now + 1
    /\ UNCHANGED <<progVars, crashed, last, emitted, session, concVars>>

(***************************************************************************)
(* trace_start, trace_flush, trace_end                                     *)
(***************************************************************************)

\* "Clock should only be initialized once for all threads": whether
\* trace_start captures the clock origin
\* (variant: every trace_start captures it)
CaptureClockAlways(init) == TRUE
CaptureClock(init) == ~init

\* trace_start when is_open() holds after the open, on the stream f1 the open
\* left: reserve, the opening bracket, the clock origin, traceActive = true
\* (variant: trace_start also clears the buffer)
StartOpenedClearing(f1) ==
    /\ vecCapacity' = IF vecCapacity < TRACE_MAX THEN TRACE_MAX ELSE vecCapacity
    /\ traceFile' = StreamWrite(f1, "[\n")
    /\ IF CaptureClock(clockInit)
       THEN startTime' = now /\ clockInit' = TRUE
       ELSE UNCHANGED <<startTime, clockInit>>
    /\ traceActive' = TRUE
    /\ dataVector' = <<>>
    /\ UNCHANGED stringBuffer
StartOpened(f1) ==
    /\ vecCapacity' = IF vecCapacity < TRACE_MAX THEN TRACE_MAX ELSE vecCapacity
    /\ traceFile' = StreamWrite(f1, "[\n")
    /\ IF CaptureClock(clockInit)
       THEN startTime' = now /\ clockInit' = TRUE
       ELSE UNCHANGED <<startTime, clockInit>>
    /\ traceActive' = TRUE
    /\ UNCHANGED <<dataVector, stringBuffer>>

\* trace_start when the file is not open after the open: the error message
\* and return 0
\* (variant: the clock origin is captured before the file is tested)
StartFailedClock(f1) ==
    /\ traceFile' = f1
    /\ startTime' = now /\ clockInit' = TRUE
    /\ UNCHANGED <<traceActive, dataVector, vecCapacity, stringBuffer>>
StartFailed(f1) ==
    /\ traceFile' = f1
    /\ UNCHANGED <<traceActive, dataVector, vecCapacity, stringBuffer,
                   clockInit, startTime>>

\* trace_start(filename); canOpen tells whether the file at filename can be
\* opened for writing
trace_start(canOpen) ==
    LET f1 == StreamOpen(traceFile, canOpen)
        opens == f1.open /\ ~traceFile.open
    IN  /\ ~crashed
        /\ IF f1.open
           THEN /\ StartOpened(f1)
                /\ last' = [op |-> "trace_start", active |-> traceActive, ok |-> TRUE, err |-> FALSE]
                /\ IF opens
                   THEN /\ session' = [emits |-> 0, flushed |-> FALSE,
                                       restarted |-> FALSE, opened |-> TRUE,
                                       start |-> now,
                                       origin |-> IF ~session.opened THEN now
                                                  ELSE session.origin]
                        /\ emitted' = <<>>
                   ELSE /\ session' = [session EXCEPT !.restarted = TRUE]
                        /\ UNCHANGED emitted
           ELSE /\ StartFailed(f1)
                /\ last' = [op |-> "trace_start", active |-> traceActive, ok |-> FALSE, err |-> TRUE]
                /\ UNCHANGED <<emitted, session>>
        /\ UNCHANGED <<now, crashed, concVars>>

\* trace_flush()
\* (variant: the records are written and left in the buffer)
trace_flush_no_clear ==
    /\ ~crashed
    /\ traceFile' = WriteAll(traceFile, dataVector)
    /\ dataVector' = dataVector
    /\ last' = [op |-> "trace_flush", active |-> traceActive, ok |-> TRUE, err |-> FALSE]
    /\ session' = [session EXCEPT !.flushed = TRUE]
    /\ UNCHANGED <<traceActive, vecCapacity, stringBuffer, clockInit, startTime,
                   now, crashed, emitted, concVars>>
\* (variant: the buffer is emptied and nothing is written)
trace_flush_no_write ==
    /\ ~crashed
    /\ traceFile' = traceFile
    /\ dataVector' = <<>>
    /\ last' = [op |-> "trace_flush", active |-> traceActive, ok |-> TRUE, err |-> FALSE]
    /\ session' = [session EXCEPT !.flushed = TRUE]
    /\ UNCHANGED <<traceActive, vecCapacity, stringBuffer, clockInit, startTime,
                   now, crashed, emitted, concVars>>
trace_flush ==
    /\ ~crashed
    /\ traceFile' = WriteAll(traceFile, dataVector)
    /\ dataVector' = <<>>
    /\ last' = [op |-> "trace_flush", active |-> traceActive, ok |-> TRUE, err |-> FALSE]
    /\ session' = [session EXCEPT !.flushed = TRUE]
    /\ UNCHANGED <<traceActive, vecCapacity, stringBuffer, clockInit, startTime,
                   now, crashed, emitted, concVars>>

\* what follows the strip in trace_end: trace_flush(), the closing bracket,
\* close() and traceActive = false
EndTail(vec) ==
    /\ traceFile' = StreamClose(StreamWrite(WriteAll(traceFile, vec), "\n]"))
    /\ dataVector' = <<>>
    /\ traceActive' = FALSE
    /\ UNCHANGED <<vecCapacity, stringBuffer, clockInit, startTime>>

\* trace_end with at least one buffered record
trace_end ==
    /\ ~crashed
    /\ dataVector # <<>>
    /\ EndTail(StripLast(dataVector))
    /\ last' = [op |-> "trace_end", active |-> traceActive, ok |-> TRUE, err |-> FALSE]
    /\ UNCHANGED <<now, crashed, emitted, session, concVars>>

\* trace_end, called on an active session as its contract demands, with an
\* empty buffer: dataVector.back() is undefined behaviour.
\* The two pop_back calls act on whatever lies before the vector's storage:
\* the process is killed by the access,
trace_end_empty_crash ==
    /\ ~crashed
    /\ traceActive
    /\ dataVector = <<>>
    /\ crashed' = TRUE
    /\ last' = [op |-> "trace_end", active |-> traceActive, ok |-> FALSE, err |-> FALSE]
    /\ UNCHANGED <<progVars, now, emitted, session, concVars>>

\* or the access hits memory that is no part of the session and trace_end
\* goes on.
trace_end_empty_stray ==
    /\ ~crashed
    /\ traceActive
    /\ dataVector = <<>>
    /\ EndTail(dataVector)
    /\ last' = [op |-> "trace_end", active |-> traceActive, ok |-> FALSE, err |-> FALSE]
    /\ UNCHANGED <<now, crashed, emitted, session, concVars>>

(***************************************************************************)
(* The emit functions.                                                     *)
(***************************************************************************)

\* "Do nothing if trace_start not called"
\* (variant: the call goes on to push_back)
InactiveAppends(op) ==
    /\ dataVector' = Append(dataVector, op)
    /\ last' = [op |-> op, active |-> traceActive, ok |-> FALSE, err |-> FALSE]
    /\ UNCHANGED <<traceActive, vecCapacity, traceFile, stringBuffer, clockInit,
                   startTime, now, crashed, emitted, session, concVars>>
Inactive(op) ==
    /\ last' = [op |-> op, active |-> traceActive, ok |-> FALSE, err |-> FALSE]
    /\ UNCHANGED <<progVars, now, crashed, emitted, session, concVars>>

\* sprintf into stringBuffer and dataVector.push_back(stringBuffer), on the
\* buffer and file r left by the flush test
PushOn(r, op, s, err) ==
    /\ traceFile' = r.file
    /\ stringBuffer' = s
    /\ dataVector' = Append(r.vec, s)
    /\ vecCapacity' = PushCapacity(r.vec, vecCapacity)
    /\ emitted' = Append(emitted, s)
    /\ session' = [session EXCEPT !.emits = @ + 1]
    /\ last' = [op |-> op, active |-> traceActive, ok |-> TRUE, err |-> err]
    /\ UNCHANGED <<traceActive, clockInit, startTime, now, crashed, concVars>>

\* the flush test, then sprintf and push_back
\* (variant: the record is also written to the file at once)
PushWriteThrough(op, s, err) ==
    LET r == FlushIfFull(dataVector, traceFile, vecCapacity)
    IN  PushOn([vec |-> r.vec, file |-> StreamWrite(r.file, s)], op, s, err)
Push(op, s, err) ==
    PushOn(FlushIfFull(dataVector, traceFile, vecCapacity), op, s, err)

\* the loop over the argument lists: "\"%s\": %s", joined by ", "
RECURSIVE FmtArgs(_, _)
FmtArgs(names, values) ==
    IF names = <<>> THEN ""
    ELSE "\"" \o Head(names) \o "\": " \o Head(values)
         \o (IF Len(names) # 1 THEN ", " ELSE "")
         \o FmtArgs(Tail(names), Tail(values))

\* the closing sprintf of the with-arguments variants
ArgsTail == "} },\n"

FmtBegin(name, cat, tid, ts) ==
    "{\"name\": \"" \o name \o "\", \"cat\": \"" \o cat
    \o "\", \"ph\": \"B\", \"pid\": " \o ToString(PID_VALUE)
    \o ", \"tid\": " \o ToString(ToInt(tid)) \o ", \"ts\": " \o ToString(ts) \o "},\n"

FmtBeginArgs(name, cat, names, values, tid, ts) ==
    "{\"name\": \"" \o name \o "\", \"cat\": \"" \o cat
    \o "\", \"ph\": \"B\", \"pid\": " \o ToString(PID_VALUE)
    \o ", \"tid\": " \o ToString(ToInt(tid)) \o ", \"ts\": " \o ToString(ts)
    \o ", \"args\": { " \o FmtArgs(names, values) \o ArgsTail

FmtEnd(tid, ts) ==
    "{\"ph\": \"E\", \"pid\": " \o ToString(PID_VALUE)
    \o ", \"tid\": " \o ToString(ToInt(tid)) \o ", \"ts\": " \o ToString(ts) \o "},\n"

FmtEndArgs(names, values, tid, ts) ==
    "{\"ph\": \"E\", \"pid\": " \o ToString(PID_VALUE)
    \o ", \"tid\": " \o ToString(ToInt(tid)) \o ", \"ts\": " \o ToString(ts)
    \o ", \"args\": { " \o FmtArgs(names, values) \o ArgsTail

FmtObject(ph, name, ptr, tid, ts) ==
    "{\"name\": \"" \o name \o "\", \"ph\": \"" \o ph \o "\", \"pid\": "
    \o ToString(PID_VALUE) \o ", \"tid\": " \o ToString(ToInt(tid))
    \o ", \"id\": " \o ToString(ptr) \o ", \"ts\": " \o ToString(ts) \o "},\n"

FmtInstant(name, tid, ts) ==
    "{\"name\": \"" \o name \o "\", \"ph\": \"i\", \"pid\": " \o ToString(PID_VALUE)
    \o ", \"tid\": " \o ToString(ToInt(tid)) \o ", \"s\": \"g\", \"ts\": "
    \o ToString(ts) \o "},\n"

FmtCounter(name, names, values, tid, ts) ==
    "{\"name\": \"" \o name \o "\", \"ph\": \"C\", \"pid\": " \o ToString(PID_VALUE)
    \o ", \"tid\": " \o ToString(ToInt(tid)) \o ", \"ts\": " \o ToString(ts)
    \o ", \"args\": { " \o FmtArgs(names, values) \o ArgsTail

\* trace_event_start(name, categories, tid)
trace_event_start(name, cat, tid) ==
    /\ ~crashed
    /\ session.emits < MaxEmits
    /\ IF ~traceActive THEN Inactive("trace_event_start")
       ELSE Push("trace_event_start", FmtBegin(name, cat, tid, Ts), FALSE)

\* the branch of the with-arguments trace_event_start taken when the lists
\* differ in length: the error message, then trace_event_start(name,
\* categories), which runs its own flush test and stamps the default tid
\* (variant: the event is dropped, as trace_counter drops it)
EventStartMismatchDropped(name, cat) ==
    LET r == FlushIfFull(dataVector, traceFile, vecCapacity)
    IN  /\ traceFile' = r.file
        /\ dataVector' = r.vec
        /\ session' = [session EXCEPT !.emits = @ + 1]
        /\ last' = [op |-> "trace_event_start_args", active |-> traceActive, ok |-> FALSE, err |-> TRUE]
        /\ UNCHANGED <<traceActive, vecCapacity, stringBuffer, clockInit,
                       startTime, now, crashed, emitted, concVars>>
EventStartMismatch(name, cat) ==
    LET r1 == FlushIfFull(dataVector, traceFile, vecCapacity)
        r2 == FlushIfFull(r1.vec, r1.file, vecCapacity)
    IN  PushOn(r2, "trace_event_start_args",
               FmtBegin(name, cat, TID_VALUE, Ts), TRUE)

\* trace_event_start(name, categories, argumentNames, argumentValues, tid)
trace_event_start_args(name, cat, names, values, tid) ==
    /\ ~crashed
    /\ session.emits < MaxEmits
    /\ IF ~traceActive THEN Inactive("trace_event_start_args")
       ELSE IF Len(names) # Len(values) THEN EventStartMismatch(name, cat)
       ELSE Push("trace_event_start_args",
                 FmtBeginArgs(name, cat, names, values, tid, Ts), FALSE)

\* trace_event_end(tid)
trace_event_end(tid) ==
    /\ ~crashed
    /\ session.emits < MaxEmits
    /\ IF ~traceActive THEN Inactive("trace_event_end")
       ELSE Push("trace_event_end", FmtEnd(tid, Ts), FALSE)

\* the branch of the with-arguments trace_event_end taken when the lists
\* differ in length: the error message, then trace_event_end()
EventEndMismatch ==
    LET r1 == FlushIfFull(dataVector, traceFile, vecCapacity)
        r2 == FlushIfFull(r1.vec, r1.file, vecCapacity)
    IN  PushOn(r2, "trace_event_end_args", FmtEnd(TID_VALUE, Ts), TRUE)

\* trace_event_end(argumentNames, argumentValues, tid)
trace_event_end_args(names, values, tid) ==
    /\ ~crashed
    /\ session.emits < MaxEmits
    /\ IF ~traceActive THEN Inactive("trace_event_end_args")
       ELSE IF Len(names) # Len(values) THEN EventEndMismatch
       ELSE Push("trace_event_end_args", FmtEndArgs(names, values, tid, Ts), FALSE)

trace_object_new(name, ptr, tid) ==
    /\ ~crashed
    /\ session.emits < MaxEmits
    /\ IF ~traceActive THEN Inactive("trace_object_new")
       ELSE Push("trace_object_new", FmtObject("N", name, ptr, tid, Ts), FALSE)

trace_object_gone(name, ptr, tid) ==
    /\ ~crashed
    /\ session.emits < MaxEmits
    /\ IF ~traceActive THEN Inactive("trace_object_gone")
       ELSE Push("trace_object_gone", FmtObject("D", name, ptr, tid, Ts), FALSE)

trace_instant_global(name, tid) ==
    /\ ~crashed
    /\ session.emits < MaxEmits
    /\ IF ~traceActive THEN Inactive("trace_instant_global")
       ELSE Push("trace_instant_global", FmtInstant(name, tid, Ts), FALSE)

\* the branch of trace_counter taken when the lists differ in length: the
\* error message only ("ignoring this event"); the flush test has run
\* (variant: the event is appended with an empty args object)
CounterMismatchDegraded(name, tid) ==
    Push("trace_counter", FmtCounter(name, <<>>, <<>>, tid, Ts), TRUE)
CounterMismatch(name, tid) ==
    LET r == FlushIfFull(dataVector, traceFile, vecCapacity)
    IN  /\ traceFile' = r.file
        /\ dataVector' = r.vec
        /\ session' = [session EXCEPT !.emits = @ + 1]
        /\ last' = [op |-> "trace_counter", active |-> traceActive, ok |-> FALSE, err |-> TRUE]
        /\ UNCHANGED <<traceActive, vecCapacity, stringBuffer, clockInit,
                       startTime, now, crashed, emitted, concVars>>

\* trace_counter(name, key, value, tid)
trace_counter(name, key, value, tid) ==
    /\ ~crashed
    /\ session.emits < MaxEmits
    /\ IF ~traceActive THEN Inactive("trace_counter")
       ELSE IF Len(key) # Len(value) THEN CounterMismatch(name, tid)
       ELSE Push("trace_counter", FmtCounter(name, key, value, tid, Ts), FALSE)

\* any call of an emit function
Emit ==
    \/ \E n \in Names, c \in Cats, t \in Tids : trace_event_start(n, c, t)
    \/ \E n \in Names, c \in Cats, ks \in KeyLists, vs \in ValueLists, t \in Tids :
          trace_event_start_args(n, c, ks, vs, t)
    \/ \E t \in Tids : trace_event_end(t)
    \/ \E ks \in KeyLists, vs \in ValueLists, t \in Tids : trace_event_end_args(ks, vs, t)
    \/ \E n \in Names, p \in ObjPointers, t \in Tids : trace_object_new(n, p, t)
    \/ \E n \in Names, p \in ObjPointers, t \in Tids : trace_object_gone(n, p, t)
    \/ \E n \in Names, t \in Tids : trace_instant_global(n, t)
    \/ \E n \in Names, ks \in KeyLists, vs \in ValueLists, t \in Tids :
          trace_counter(n, ks, vs, t)

Next ==
    \/ Tick
    \/ \E canOpen \in BOOLEAN : trace_start(canOpen)
    \/ trace_flush
    \/ trace_end
    \/ trace_end_empty_crash
    \/ trace_end_empty_stray
    \/ Emit

Spec == Init /\ [][Next]_vars

\* a long time passes between two calls: half the range of int, in
\* microseconds (2^31 us, about 36 minutes, in the build)
LongWait ==
    /\ ~crashed
    /\ now < 2 ^ (IntBits - 1)
    /\ now' = now + 2 ^ (IntBits - 1)
    /\ UNCHANGED <<progVars, crashed, last, emitted, session, concVars>>

NextLong == Next \/ LongWait

\* the session used over a long time
SpecLong == Init /\ [][NextLong]_vars

(***************************************************************************)
(* Two threads calling the library: no call is guarded, so the calls of     *)
(* two threads interleave statement by statement.  Each thread calls        *)
(* trace_instant_global with its own tid, trace_flush and trace_end.        *)
(***************************************************************************)

\* calls the threads make in all
MaxCalls == TRACE_MAX + 2

\* another thread is inside a call while thread t moves
Overlap(t) == \E u \in ThreadIds \ {t} : threads[u].pc # "idle"

\* thread t moves on to the statement at pc
Goto(t, pc) ==
    /\ threads' = [threads EXCEPT ![t].pc = pc]
    /\ conc' = [conc EXCEPT !.interleaved = @ \/ Overlap(t)]

\* thread t returns from trace_flush to where it was called from
Return(t) ==
    /\ threads' = [threads EXCEPT ![t] = [Idle EXCEPT !.pc = threads[t].ret]]
    /\ conc' = [conc EXCEPT !.interleaved = @ \/ Overlap(t)]

\* thread t enters a function at the statement pc
Call(t, pc) ==
    /\ ~crashed
    /\ session.opened
    /\ threads[t].pc = "idle"
    /\ conc.calls < MaxCalls
    /\ threads' = [threads EXCEPT ![t].pc = pc]
    /\ conc' = [conc EXCEPT !.interleaved = @ \/ Overlap(t), !.calls = @ + 1]
    /\ UNCHANGED <<progVars, now, crashed, last, emitted, session,
                   slots, rendered>>

\* thread t is at the statement pc
At(t, pc) == ~crashed /\ threads[t].pc = pc

\* thread t calls trace_instant_global(name, t)
CallEmit(t) ==
    /\ threads[t].pc = "idle"
    /\ Call(t, "emit_active")

\* if(!traceActive) return;
EmitActive(t) ==
    /\ At(t, "emit_active")
    /\ Goto(t, IF traceActive THEN "emit_full" ELSE "idle")
    /\ UNCHANGED <<progVars, now, crashed, last, emitted, session,
                   slots, rendered>>

\* if( dataVector.size() == dataVector.capacity() ) trace_flush();
\* (variant: the test left out)
EmitFullSkip(t) ==
    /\ At(t, "emit_full")
    /\ Goto(t, "emit_sprintf")
    /\ UNCHANGED <<progVars, now, crashed, last, emitted, session,
                   slots, rendered>>
EmitFull(t) ==
    /\ At(t, "emit_full")
    /\ IF NeedFlush(dataVector, vecCapacity)
       THEN /\ threads' = [threads EXCEPT ![t].pc = "flush_begin",
                                          ![t].ret = "emit_sprintf"]
            /\ conc' = [conc EXCEPT !.interleaved = @ \/ Overlap(t)]
       ELSE Goto(t, "emit_sprintf")
    /\ UNCHANGED <<progVars, now, crashed, last, emitted, session,
                   slots, rendered>>

\* sprintf(stringBuffer, ...) of trace_instant_global
\* (variant: the text is rendered and stringBuffer left as it was)
EmitSprintfNowhere(t) ==
    /\ At(t, "emit_sprintf")
    /\ \E name \in Names :
          /\ stringBuffer' = stringBuffer
          /\ rendered' = Append(rendered, FmtInstant(name, t, Ts))
    /\ Goto(t, "emit_push")
    /\ UNCHANGED <<traceActive, dataVector, vecCapacity, traceFile, clockInit,
                   startTime, now, crashed, last, emitted, session,
                   slots>>
EmitSprintf(t) ==
    /\ At(t, "emit_sprintf")
    /\ \E name \in Names :
          /\ stringBuffer' = FmtInstant(name, t, Ts)
          /\ rendered' = Append(rendered, FmtInstant(name, t, Ts))
    /\ Goto(t, "emit_push")
    /\ UNCHANGED <<traceActive, dataVector, vecCapacity, traceFile, clockInit,
                   startTime, now, crashed, last, emitted, session,
                   slots>>

\* the storage after a string is put at place k
Store(k, str) ==
    IF k <= Len(slots) THEN [slots EXCEPT ![k] = str] ELSE Append(slots, str)

\* dataVector.push_back(stringBuffer);
EmitPush(t) ==
    /\ At(t, "emit_push")
    /\ dataVector' = Append(dataVector, stringBuffer)
    /\ vecCapacity' = PushCapacity(dataVector, vecCapacity)
    /\ slots' = Store(Len(dataVector) + 1, stringBuffer)
    /\ emitted' = Append(emitted, stringBuffer)
    /\ Goto(t, "idle")
    /\ UNCHANGED <<traceActive, traceFile, stringBuffer, clockInit, startTime,
                   now, crashed, last, session, rendered>>

\* thread t calls trace_flush()
CallFlush(t) ==
    /\ threads[t].pc = "idle"
    /\ Call(t, "flush_begin")

\* for(auto const& value : dataVector): begin() and end() are taken once
FlushBegin(t) ==
    /\ At(t, "flush_begin")
    /\ threads' = [threads EXCEPT
                      ![t].pc = IF dataVector = <<>> THEN "flush_clear"
                                ELSE "flush_iter",
                      ![t].i = 1,
                      ![t].n = Len(dataVector),
                      ![t].cap = vecCapacity]
    /\ conc' = [conc EXCEPT !.interleaved = @ \/ Overlap(t)]
    /\ UNCHANGED <<progVars, now, crashed, last, emitted, session,
                   slots, rendered>>

\* the element the loop of thread t is at is an element of the vector: the
\* storage was not reallocated and the element not destroyed
ElementValid(t) ==
    /\ threads[t].cap = vecCapacity
    /\ threads[t].i <= Len(dataVector)

\* the loop of thread t goes to its next element, or ends
FlushAdvance(t) ==
    /\ threads' = [threads EXCEPT
                      ![t].pc = IF threads[t].i < threads[t].n THEN "flush_iter"
                                ELSE "flush_clear",
                      ![t].i = @ + 1]

\* traceFile << value;
FlushIter(t) ==
    /\ At(t, "flush_iter")
    /\ ElementValid(t)
    /\ traceFile' = StreamWrite(traceFile, dataVector[threads[t].i])
    /\ FlushAdvance(t)
    /\ conc' = [conc EXCEPT !.interleaved = @ \/ Overlap(t)]
    /\ UNCHANGED <<traceActive, dataVector, vecCapacity, stringBuffer, clockInit,
                   startTime, now, crashed, last, emitted, session,
                   slots, rendered>>

\* traceFile << value; through an iterator another thread has invalidated:
\* the read finds the bytes the string held, or an empty string,
FlushIterInvalid(t) ==
    /\ At(t, "flush_iter")
    /\ ~ElementValid(t)
    /\ \E txt \in {"", slots[threads[t].i]} :
          traceFile' = StreamWrite(traceFile, txt)
    /\ FlushAdvance(t)
    /\ conc' = [conc EXCEPT !.interleaved = @ \/ Overlap(t), !.ub = TRUE]
    /\ UNCHANGED <<traceActive, dataVector, vecCapacity, stringBuffer, clockInit,
                   startTime, now, crashed, last, emitted, session,
                   slots, rendered>>

\* or the process is killed by the access.
FlushIterCrash(t) ==
    /\ At(t, "flush_iter")
    /\ ~ElementValid(t)
    /\ crashed' = TRUE
    /\ conc' = [conc EXCEPT !.interleaved = @ \/ Overlap(t), !.ub = TRUE]
    /\ UNCHANGED <<progVars, now, last, emitted, session, threads,
                   slots, rendered>>

\* dataVector.clear();
FlushClear(t) ==
    /\ At(t, "flush_clear")
    /\ dataVector' = <<>>
    /\ Return(t)
    /\ UNCHANGED <<traceActive, vecCapacity, traceFile, stringBuffer, clockInit,
                   startTime, now, crashed, last, emitted, session,
                   slots, rendered>>

\* thread t calls trace_end()
CallEnd(t) ==
    /\ threads[t].pc = "idle"
    /\ Call(t, "end_strip1")

\* the statement after the one at pc in trace_end
AfterStrip(pc) == IF pc = "end_strip1" THEN "end_strip2" ELSE "flush_begin"

\* dataVector.back().pop_back(); each of the two
EndStrip(t) ==
    /\ ~crashed
    /\ threads[t].pc \in {"end_strip1", "end_strip2"}
    /\ dataVector # <<>>
    /\ dataVector' = [dataVector EXCEPT ![Len(dataVector)] = PopBack(@)]
    /\ slots' = [slots EXCEPT ![Len(dataVector)] = PopBack(@)]
    /\ threads' = [threads EXCEPT ![t].pc = AfterStrip(threads[t].pc),
                                  ![t].ret = "end_bracket"]
    /\ conc' = [conc EXCEPT !.interleaved = @ \/ Overlap(t)]
    /\ UNCHANGED <<traceActive, vecCapacity, traceFile, stringBuffer, clockInit,
                   startTime, now, crashed, last, emitted, session,
                   rendered>>

\* dataVector.back() of an empty vector: the process is killed,
EndStripCrash(t) ==
    /\ ~crashed
    /\ threads[t].pc \in {"end_strip1", "end_strip2"}
    /\ dataVector = <<>>
    /\ crashed' = TRUE
    /\ conc' = [conc EXCEPT !.interleaved = @ \/ Overlap(t), !.ub = TRUE]
    /\ UNCHANGED <<progVars, now, last, emitted, session, threads,
                   slots, rendered>>

\* or the access hits memory that is no part of the session.
EndStripStray(t) ==
    /\ ~crashed
    /\ threads[t].pc \in {"end_strip1", "end_strip2"}
    /\ dataVector = <<>>
    /\ threads' = [threads EXCEPT ![t].pc = AfterStrip(threads[t].pc),
                                  ![t].ret = "end_bracket"]
    /\ conc' = [conc EXCEPT !.interleaved = @ \/ Overlap(t), !.ub = TRUE]
    /\ UNCHANGED <<progVars, now, crashed, last, emitted, session,
                   slots, rendered>>

\* traceFile << "\n]";
EndBracket(t) ==
    /\ At(t, "end_bracket")
    /\ traceFile' = StreamWrite(traceFile, "\n]")
    /\ Goto(t, "end_close")
    /\ UNCHANGED <<traceActive, dataVector, vecCapacity, stringBuffer, clockInit,
                   startTime, now, crashed, last, emitted, session,
                   slots, rendered>>

\* traceFile.close();
EndClose(t) ==
    /\ At(t, "end_close")
    /\ traceFile' = StreamClose(traceFile)
    /\ Goto(t, "end_inactive")
    /\ UNCHANGED <<traceActive, dataVector, vecCapacity, stringBuffer, clockInit,
                   startTime, now, crashed, last, emitted, session,
                   slots, rendered>>

\* traceActive = false;
EndInactive(t) ==
    /\ At(t, "end_inactive")
    /\ traceActive' = FALSE
    /\ Goto(t, "idle")
    /\ UNCHANGED <<dataVector, vecCapacity, traceFile, stringBuffer, clockInit,
                   startTime, now, crashed, last, emitted, session,
                   slots, rendered>>

\* the one trace_start of the process, before the threads call
ConcStart == ~session.opened /\ trace_start(TRUE)

NextConc ==
    \/ ConcStart
    \/ Tick
    \/ \E t \in ThreadIds : CallEmit(t)
    \/ \E t \in ThreadIds : EmitActive(t)
    \/ \E t \in ThreadIds : EmitFull(t)
    \/ \E t \in ThreadIds : EmitSprintf(t)
    \/ \E t \in ThreadIds : EmitPush(t)
    \/ \E t \in ThreadIds : CallFlush(t)
    \/ \E t \in ThreadIds : FlushBegin(t)
    \/ \E t \in ThreadIds : FlushIter(t)
    \/ \E t \in ThreadIds : FlushIterInvalid(t)
    \/ \E t \in ThreadIds : FlushIterCrash(t)
    \/ \E t \in ThreadIds : FlushClear(t)
    \/ \E t \in ThreadIds : CallEnd(t)
    \/ \E t \in ThreadIds : EndStrip(t)
    \/ \E t \in ThreadIds : EndStripCrash(t)
    \/ \E t \in ThreadIds : EndStripStray(t)
    \/ \E t \in ThreadIds : EndBracket(t)
    \/ \E t \in ThreadIds : EndClose(t)
    \/ \E t \in ThreadIds : EndInactive(t)

\* one session used by two threads
SpecConc == Init /\ [][NextConc]_vars

(***************************************************************************)
(* What the properties speak of.                                           *)
(***************************************************************************)

\* the separator every record is rendered with
Separator == ",\n"

\* a rendered record without its separator
Bare(rec) == SubSeq(rec, 1, Len(rec) - Len(Separator))

\* the records one after the other, each with its separator
RECURSIVE Concat(_)
Concat(recs) == IF recs = <<>> THEN "" ELSE Head(recs) \o Concat(Tail(recs))

\* the records separated from one another, no separator after the last
Joined(recs) ==
    IF recs = <<>> THEN ""
    ELSE Concat(SubSeq(recs, 1, Len(recs) - 1)) \o Bare(recs[Len(recs)])

\* the document of the records: bracket, records, bracket
Framed(recs) == "[\n" \o Joined(recs) \o "\n]"

\* the text sub occurs in s
Contains(s, sub) ==
    \E i \in 1..(Len(s) - Len(sub) + 1) : SubSeq(s, i, i + Len(sub) - 1) = sub

HasArgs(rec) == Contains(rec, "\"args\"")
IsPhase(rec, ph) == Contains(rec, "\"ph\": \"" \o ph \o "\"")

\* the buffer an emit appends to: the buffer as it is, or emptied by the
\* flush when it holds TRACE_MAX records
BufferAtAppend == IF Len(dataVector) = TRACE_MAX THEN <<>> ELSE dataVector

\* trace_end was called in a session opened by trace_start on an inactive
\* session, in which only emit functions were called
EndOfEmitSession ==
    /\ last.op = "trace_end" /\ last.active
    /\ session.opened /\ ~session.flushed /\ ~session.restarted

(* C1: after trace_end in a session of emit calls only, the sink holds the
   opening bracket, the emitted records separated by the separator with none
   before the first and none after the last, and the closing bracket. *)
C1_WellFormed ==
    (EndOfEmitSession /\ ~crashed) => traceFile.content = Framed(emitted)

(* C2: trace_start immediately followed by trace_end ends in a closed sink
   holding the empty array and an inactive session, and trace_end does not
   access the last element of the empty buffer. *)
C2_ZeroEvents ==
    (EndOfEmitSession /\ session.emits = 0) =>
        /\ last.ok /\ ~crashed
        /\ ~traceActive /\ ~traceFile.open
        /\ traceFile.content = "[\n\n]"

(* C3: after trace_end in a session that emitted more than TRACE_MAX events,
   the sink holds exactly the emitted events in emission order, as a session
   with an unbounded buffer leaves them: the document of the events when
   trace_end found a record to strip, and otherwise the events each with its
   separator, followed by the closing bracket unless the process was killed. *)
C3_FlushTransparent ==
    (last.op = "trace_end" /\ last.active /\ ~session.restarted
       /\ Len(emitted) > TRACE_MAX) =>
        IF last.ok THEN traceFile.content = Framed(emitted)
        ELSE IF crashed THEN traceFile.content = "[\n" \o Concat(emitted)
        ELSE traceFile.content = "[\n" \o Concat(emitted) \o "\n]"

C3_Witness ==
    /\ EndOfEmitSession /\ last.ok
    /\ Len(emitted) = TRACE_MAX + 1

(* C4: the buffer never holds more than TRACE_MAX records, and its capacity
   in an active session is TRACE_MAX. *)
C4_BufferBounded ==
    /\ Len(dataVector) <= TRACE_MAX
    /\ traceActive => vecCapacity = TRACE_MAX

C4_Witness ==
    /\ traceActive /\ ~session.flushed /\ ~session.restarted
    /\ Len(emitted) > TRACE_MAX
    /\ dataVector # <<>>

(* C5: an emit call on an inactive session leaves the buffer, the sink, the
   active flag and the clock origin unchanged. *)
C5_InactiveNoOp ==
    [][(~traceActive /\ Emit) =>
          UNCHANGED <<dataVector, traceFile, traceActive, clockInit, startTime>>]_vars

C5_Witness ==
    /\ ~traceActive /\ last.op = "trace_counter" /\ ~last.ok
    /\ session.opened /\ emitted # <<>>

(* C6: in an active session the with-arguments trace_event_start and
   trace_event_end, called with lists of different length, append exactly one
   event of their kind without an args field, after the flush when the buffer
   is at capacity. *)
C6_MismatchDegrades ==
    [][\A ks \in KeyLists, vs \in ValueLists, t \in Tids :
         (traceActive /\ Len(ks) # Len(vs)) =>
            /\ \A n \in Names, c \in Cats :
                 trace_event_start_args(n, c, ks, vs, t) =>
                    /\ Len(dataVector') = Len(BufferAtAppend) + 1
                    /\ SubSeq(dataVector', 1, Len(BufferAtAppend)) = BufferAtAppend
                    /\ IsPhase(dataVector'[Len(dataVector')], "B")
                    /\ ~HasArgs(dataVector'[Len(dataVector')])
                    /\ emitted' = Append(emitted, dataVector'[Len(dataVector')])
                    /\ last'.err
            /\ trace_event_end_args(ks, vs, t) =>
                    /\ Len(dataVector') = Len(BufferAtAppend) + 1
                    /\ SubSeq(dataVector', 1, Len(BufferAtAppend)) = BufferAtAppend
                    /\ IsPhase(dataVector'[Len(dataVector')], "E")
                    /\ ~HasArgs(dataVector'[Len(dataVector')])
                    /\ emitted' = Append(emitted, dataVector'[Len(dataVector')])
                    /\ last'.err]_vars

C6_Witness ==
    /\ traceActive /\ last.op = "trace_event_start_args" /\ last.err
    /\ ~session.flushed /\ ~session.restarted
    /\ Len(emitted) = TRACE_MAX + 1
    /\ Len(dataVector) = 1

(* C7 as stated: in an active session trace_counter called with lists of
   different length reports an error and still appends a counter event. *)
C7_CounterDegrades ==
    (traceActive /\ last.op = "trace_counter" /\ last.err) =>
        /\ last.ok
        /\ dataVector # <<>>
        /\ IsPhase(dataVector[Len(dataVector)], "C")

(* C7 amended: in an active session trace_counter called with lists of
   different length reports an error and appends no event: the buffer is left
   as it is, or flushed to the sink when it holds TRACE_MAX records. *)
C7_CounterDropped ==
    [][\A n \in Names, ks \in KeyLists, vs \in ValueLists, t \in Tids :
         (traceActive /\ Len(ks) # Len(vs) /\ trace_counter(n, ks, vs, t)) =>
            /\ dataVector' = BufferAtAppend
            /\ emitted' = emitted
            /\ traceFile' = (IF Len(dataVector) = TRACE_MAX
                             THEN WriteAll(traceFile, dataVector) ELSE traceFile)
            /\ last'.err]_vars

C7_Witness ==
    /\ traceActive /\ last.op = "trace_counter" /\ last.err /\ ~last.ok
    /\ emitted # <<>> /\ dataVector = <<>>

(* C8: trace_start on an inactive session whose file cannot be opened
   returns failure and leaves the session inactive, the buffer, the sink
   content and the clock origin unchanged; the session becomes active only by
   a trace_start that succeeds. *)
C8_FailedStart ==
    [][/\ (~traceActive /\ trace_start(FALSE)) =>
            /\ ~last'.ok /\ last'.err
            /\ ~traceActive' /\ ~traceFile'.open
            /\ dataVector' = dataVector
            /\ traceFile'.content = traceFile.content
            /\ clockInit' = clockInit /\ startTime' = startTime
       /\ (~traceActive /\ traceActive') =>
            (last'.op = "trace_start" /\ last'.ok)]_vars

C8_Witness ==
    /\ ~traceActive /\ ~clockInit /\ ~session.opened
    /\ ~traceFile.good
    /\ last.op = "trace_instant_global"

(* C9: the clock origin is captured by the first successful trace_start, as
   the time of that call, and no later step changes it. *)
C9_ClockOnce ==
    [][/\ clockInit => (clockInit' /\ startTime' = startTime)
       /\ (~clockInit /\ clockInit') =>
            (last'.op = "trace_start" /\ last'.ok /\ startTime' = now)
       /\ (~clockInit /\ traceActive') => clockInit']_vars

C9_Witness ==
    /\ session.origin < session.start /\ traceActive /\ last.op = "trace_start"
    /\ startTime < now

(* C10 as stated: right after a trace_start called on an active session the
   buffer is empty and the sink holds only the opening bracket. *)
C10_RestartResets ==
    (last.op = "trace_start" /\ last.active /\ last.ok) =>
        (dataVector = <<>> /\ traceFile.content = "[\n")

(* C10 amended: trace_start on an active session returns success but neither
   re-opens the sink nor resets the buffer: the buffer and the sink content
   are what they were, the stream is left open in a failed state, and as
   long as it is in a failed state nothing is written to the sink. *)
C10_RestartPoisons ==
    [][/\ \A c \in BOOLEAN : (traceActive /\ trace_start(c)) =>
            /\ last'.ok /\ traceActive'
            /\ dataVector' = dataVector
            /\ traceFile'.content = traceFile.content
            /\ traceFile'.open /\ ~traceFile'.good
       /\ (~traceFile.good /\ traceFile'.content # traceFile.content) =>
            (~traceFile.open /\ last'.op = "trace_start" /\ last'.ok)]_vars

C10_Witness ==
    /\ session.restarted /\ last.op = "trace_end" /\ last.ok
    /\ Len(emitted) > TRACE_MAX
    /\ ~Contains(traceFile.content, "]")


\* the place of the text sub in s
IndexOf(s, sub) ==
    CHOOSE i \in 1..(Len(s) - Len(sub) + 1) :
        /\ SubSeq(s, i, i + Len(sub) - 1) = sub
        /\ \A j \in 1..(i - 1) : SubSeq(s, j, j + Len(sub) - 1) # sub

Digits == <<"0", "1", "2", "3", "4", "5", "6", "7", "8", "9">>
IsDigit(c) == \E d \in 1..10 : Digits[d] = c
DigitValue(c) == (CHOOSE d \in 1..10 : Digits[d] = c) - 1

\* the decimal number that starts at place i of s
RECURSIVE ReadNat(_, _, _)
ReadNat(s, i, acc) ==
    IF i <= Len(s) /\ IsDigit(SubSeq(s, i, i))
    THEN ReadNat(s, i + 1, 10 * acc + DigitValue(SubSeq(s, i, i)))
    ELSE acc

\* the number a field of a record holds, the field given as "\"ts\": "
FieldOf(rec, field) ==
    LET p == IndexOf(rec, field) + Len(field)
    IN  IF SubSeq(rec, p, p) = "-" THEN 0 - ReadNat(rec, p + 1, 0)
        ELSE ReadNat(rec, p, 0)

TsOf(rec) == FieldOf(rec, "\"ts\": ")
TidOf(rec) == FieldOf(rec, "\"tid\": ")

(* C11: the ts values recorded in the events of a session are all >= 0 and
   non-decreasing in emission order, whatever time has elapsed since the
   clock origin. *)
C11_TsMonotone ==
    \A i \in 1..Len(emitted) :
        /\ TsOf(emitted[i]) >= 0
        /\ i > 1 => TsOf(emitted[i - 1]) <= TsOf(emitted[i])

(* C12: trace_flush called with an empty buffer, on an active or an inactive
   session, leaves the sink, the buffer, the active flag and the clock origin
   unchanged and reports no error; a trace_flush that follows a trace_flush
   changes nothing either, so two in a row do what one does. *)
C12_EmptyFlushNoOp ==
    [][(trace_flush /\ (dataVector = <<>> \/ last.op = "trace_flush")) =>
          /\ UNCHANGED <<traceFile, dataVector, traceActive, clockInit, startTime>>
          /\ ~last'.err]_vars

C12_Witness ==
    /\ last.op = "trace_flush" /\ last.active
    /\ session.opened /\ ~session.restarted
    /\ emitted = <<>> /\ traceFile.content = "[\n"

(* C13 as stated: the ts of every event appended, in the first session and in
   every later one, is the time elapsed between the trace_start that opened
   the session recording the event and the emit call. *)
C13_TsSinceSessionStart ==
    [][(traceActive /\ ~session.restarted /\ Emit /\ emitted' # emitted) =>
          TsOf(emitted'[Len(emitted')]) = now - session.start]_vars

(* C13 amended: the ts of every event appended, in the first session and in
   every later one, is the time elapsed between the first trace_start of the
   process that succeeded and the emit call, converted to int. *)
C13_TsSinceFirstStart ==
    [][(traceActive /\ Emit /\ emitted' # emitted) =>
          TsOf(emitted'[Len(emitted')]) = ToInt(now - session.origin)]_vars

C13_Witness ==
    /\ traceActive /\ ~session.restarted
    /\ session.origin < session.start
    /\ last.op = "trace_instant_global" /\ last.ok
    /\ TsOf(emitted[Len(emitted)]) > 0

(* C14: after trace_end called on an active session whose buffer is empty
   while records of the session are already in the sink, the separator of the
   last record written is removed: the sink is the document of the emitted
   records, ending with the last record without separator and the closing
   bracket, the sink is closed and the session inactive. *)
C14_EndAfterFlush ==
    (/\ last.op = "trace_end" /\ last.active /\ ~last.ok
     /\ session.opened /\ ~session.restarted
     /\ emitted # <<>>) =>
        /\ ~crashed
        /\ traceFile.content = Framed(emitted)
        /\ ~traceFile.open /\ ~traceActive

(* C15 as stated: a flush on an active session, explicit or triggered by an
   emit that finds the buffer at capacity, appends the buffered records to
   the sink in insertion order after what the sink holds, and empties the
   buffer (the emit then appends its record to the empty buffer). *)
C15_FlushAppends ==
    [][/\ (traceActive /\ trace_flush) =>
            /\ traceFile'.content = traceFile.content \o Concat(dataVector)
            /\ dataVector' = <<>>
       /\ (traceActive /\ Emit /\ Len(dataVector) = vecCapacity) =>
            /\ traceFile'.content = traceFile.content \o Concat(dataVector)
            /\ dataVector' = SubSeq(emitted', Len(emitted) + 1, Len(emitted'))]_vars

(* C15 amended: a flush on an active session, explicit or triggered by an
   emit that finds the buffer at capacity, empties the buffer; it appends the
   buffered records to the sink in insertion order after what the sink
   holds when the stream is in a good state, and leaves the sink as it is,
   the records being lost, when the stream is in a failed state. *)
C15_FlushAppendsIfGood ==
    [][/\ (traceActive /\ trace_flush) =>
            /\ traceFile'.content =
                  (IF traceFile.good THEN traceFile.content \o Concat(dataVector)
                   ELSE traceFile.content)
            /\ dataVector' = <<>>
       /\ (traceActive /\ Emit /\ Len(dataVector) = vecCapacity) =>
            /\ traceFile'.content =
                  (IF traceFile.good THEN traceFile.content \o Concat(dataVector)
                   ELSE traceFile.content)
            /\ dataVector' = SubSeq(emitted', Len(emitted) + 1, Len(emitted'))]_vars

C15_Witness ==
    /\ last.op = "trace_flush" /\ last.active /\ traceActive
    /\ traceFile.good /\ ~session.restarted
    /\ Len(emitted) = TRACE_MAX + 1
    /\ dataVector = <<>>
    /\ traceFile.content = "[\n" \o Concat(emitted)

(* C16 as stated: an emit call on an active session whose buffer holds fewer
   than TRACE_MAX records appends exactly one record at the end of the
   buffer, keeps the records already buffered, and leaves the sink, the
   active flag and the clock origin unchanged; the sink content changes only
   in trace_start, in a flush and in trace_end. *)
C16_EmitFrame ==
    [][/\ (traceActive /\ Len(dataVector) < TRACE_MAX /\ Emit) =>
            /\ Len(dataVector') = Len(dataVector) + 1
            /\ SubSeq(dataVector', 1, Len(dataVector)) = dataVector
            /\ UNCHANGED <<traceFile, traceActive, clockInit, startTime>>
       /\ (traceFile'.content # traceFile.content) =>
            \/ last'.op \in {"trace_start", "trace_flush", "trace_end"}
            \/ Len(dataVector) = vecCapacity]_vars

(* C16 amended: an emit call on an active session whose buffer holds fewer
   than TRACE_MAX records leaves the sink, the active flag and the clock
   origin unchanged and keeps the records already buffered; it appends
   exactly one record, the one it rendered, at the end of the buffer, except
   trace_counter called with lists of different length, which appends none.
   The sink content changes only in trace_start, in a flush and in
   trace_end. *)
C16_EmitFrameButCounter ==
    [][/\ (traceActive /\ Len(dataVector) < TRACE_MAX /\ Emit) =>
            /\ IF last'.op = "trace_counter" /\ last'.err
               THEN dataVector' = dataVector /\ emitted' = emitted
               ELSE /\ dataVector' = Append(dataVector, stringBuffer')
                    /\ emitted' = Append(emitted, stringBuffer')
            /\ UNCHANGED <<traceFile, traceActive, clockInit, startTime>>
       /\ (traceFile'.content # traceFile.content) =>
            \/ last'.op \in {"trace_start", "trace_flush", "trace_end"}
            \/ Len(dataVector) = vecCapacity]_vars

C16_Witness ==
    /\ traceActive /\ last.op = "trace_object_new" /\ last.ok
    /\ ~session.flushed /\ ~session.restarted
    /\ Len(emitted) = 1 /\ dataVector = emitted
    /\ traceFile.content = "[\n"

\* any call of an emit function made with the explicit tid t
EmitWithTid(t) ==
    \/ \E n \in Names, c \in Cats : trace_event_start(n, c, t)
    \/ \E n \in Names, c \in Cats, ks \in KeyLists, vs \in ValueLists :
          trace_event_start_args(n, c, ks, vs, t)
    \/ trace_event_end(t)
    \/ \E ks \in KeyLists, vs \in ValueLists : trace_event_end_args(ks, vs, t)
    \/ \E n \in Names, p \in ObjPointers : trace_object_new(n, p, t)
    \/ \E n \in Names, p \in ObjPointers : trace_object_gone(n, p, t)
    \/ \E n \in Names : trace_instant_global(n, t)
    \/ \E n \in Names, ks \in KeyLists, vs \in ValueLists : trace_counter(n, ks, vs, t)

(* C17: every event appended by an emit call made with an explicit tid
   carries that tid, whatever the kind of the event, also when a
   with-arguments begin or end event is appended in its no-argument form
   because the lists differ in length. *)
C17_TidCarried ==
    [][\A t \in Tids :
         (traceActive /\ EmitWithTid(t) /\ emitted' # emitted) =>
             TidOf(emitted'[Len(emitted')]) = t]_vars

(* C18: in a process whose trace_start calls are all made on an inactive
   session, after the trace_end of every cycle the session is inactive, the
   buffer is empty and the sink holds the opening bracket, exactly the
   records appended since the trace_start of that cycle, in emission order,
   and the closing bracket: nothing of an earlier cycle and nothing of an
   emit call made while inactive. *)
C18_CyclesIsolated ==
    (/\ last.op = "trace_end" /\ last.active
     /\ session.opened /\ ~session.restarted) =>
        /\ ~traceActive
        /\ dataVector = <<>>
        /\ \/ traceFile.content = Framed(emitted)
           \/ traceFile.content = "[\n" \o Concat(emitted) \o "\n]"

\* no thread is inside a call
AllIdle == \A t \in ThreadIds : threads[t].pc = "idle"

\* the session of the threads has ended: trace_end has run to its last
\* statement, no thread is inside a call and no access was undefined
EndedClean ==
    /\ AllIdle /\ session.opened /\ ~traceActive
    /\ ~crashed /\ ~conc.ub

\* text is the document of the records recs taken in some order
FramedInSomeOrder(text, recs) ==
    \E f \in [1..Len(recs) -> 1..Len(recs)] :
        /\ \A j, k \in 1..Len(recs) : f[j] = f[k] => j = k
        /\ text = Framed([k \in 1..Len(recs) |-> recs[f[k]]])

(* C19: two threads whose calls of the emit functions, trace_flush and
   trace_end overlap, interleaved statement by statement, reach a bad state
   (the buffer above TRACE_MAX, a final sink that is not the array of the
   emitted events); it is the overlap that brings it about: as long as no
   two calls have overlapped the buffer holds at most TRACE_MAX records and
   a session ended without undefined access leaves the document of the
   rendered events in the sink. *)
C19_BadOnlyByOverlap ==
    ~conc.interleaved =>
        /\ Len(dataVector) <= TRACE_MAX
        /\ EndedClean => traceFile.content = Framed(rendered)

C19_Witness ==
    /\ conc.interleaved /\ EndedClean
    /\ ~traceFile.open /\ traceFile.good
    /\ Len(rendered) = 2
    /\ ~FramedInSomeOrder(traceFile.content, rendered)
    /\ \E k \in 1..2 : ~Contains(traceFile.content, Bare(rendered[k]))

(* C20: every emit renders into the one stringBuffer and push_back copies
   whatever stringBuffer holds at that time.  As long as no two calls have
   overlapped, the records appended are the records the calls rendered, one
   for one and in order; with two threads a thread appends the text the
   other rendered (the witness). *)
C20_OwnTextUnlessOverlap ==
    ~conc.interleaved =>
        /\ Len(emitted) <= Len(rendered)
        /\ emitted = SubSeq(rendered, 1, Len(emitted))
        /\ AllIdle => emitted = rendered

C20_Witness ==
    /\ AllIdle /\ traceActive /\ ~conc.ub
    /\ Len(rendered) = 2 /\ rendered[1] # rendered[2]
    /\ dataVector = <<rendered[2], rendered[2]>>

=============================================================================
